---- MODULE Spec2Model ----
(***************************************************************************)
(* A model of the event-driven-pipeline package: the EventBus              *)
(* (src/event.py), Pipeline / PipelineStage / PipelineBuilder              *)
(* (src/pipeline.py) and the process_stream driver (src/stream.py).        *)
(*                                                                         *)
(* Scheduling is asyncio's: one task runs at a time and gives up control   *)
(* only at an await that really suspends.  The variable cpu names the      *)
(* task that is running ("none" when every task is suspended or idle);     *)
(* synchronous calls made by the surrounding program (subscribe,           *)
(* add_stage, stage, build) happen only while cpu = "none".                *)
(*                                                                         *)
(* Callables supplied by the caller (handlers, conditions, processors)     *)
(* are inputs: they are drawn from small pools of functions and coroutine  *)
(* functions that return a value or raise an Exception.  Cancellation and  *)
(* other BaseExceptions are not modelled.                                  *)
(***************************************************************************)
EXTENDS Integers, Sequences, FiniteSets, TLC

VARIABLES
  cpu,          \* the task that holds the interpreter, or "none"
  bus_handlers, \* EventBus._handlers: dict event_type -> list of handlers
  subscribed,   \* history: per type, the handlers passed to subscribe, in call order
  pub,          \* per publishing task: the frame of its EventBus.publish call
  lists,        \* the heap of stage lists: list id -> sequence of PipelineStage
  pipes,        \* the Pipeline objects: pipeline id -> id of its .stages list
  builder,      \* the PipelineBuilder object: id of its ._stages list
  expected,     \* history: per pipeline, its stages at build time and the
                \* stages passed to its add_stage since, in call order
  recorded,     \* history: the stages passed to builder.stage, in call order
  chain,        \* the last add_stage call: its pipeline and what it returned
  exec,         \* per executing task: the frame of its Pipeline.execute call
  drv,          \* the frame of the task that calls process_stream
  held,         \* what the last get_handlers call returned to its caller
  heap,         \* the objects Streams keep as _data: lists and iterators
  streams,      \* the Stream objects made so far, with their history
  last          \* the last traversal or collect of a Stream and what it gave

busVars == <<bus_handlers, subscribed, pub, held>>
pipeVars == <<lists, pipes, builder, expected, recorded, chain, exec>>
streamVars == <<heap, streams, last>>
vars == <<cpu, bus_handlers, subscribed, pub, held, lists, pipes, builder,
          expected, recorded, chain, exec, drv, heap, streams, last>>

----------------------------------------------------------------------------
(* Bounds and input pools                                                  *)

MaxSubs == 3      \* subscribe calls per bus
MaxData == 1      \* event payloads are 0..MaxData

LOW == 1
NORMAL == 2
HIGH == 3
CRITICAL == 4
EventPriority == {LOW, NORMAL, HIGH, CRITICAL}

Types == {"a", "b"}
PubTasks == {"p1"}

\* Handlers a caller may subscribe: plain functions and coroutine functions,
\* returning a value or raising an Exception.
HandlerPool == {"f_ok", "f_err", "co_ok", "co_err"}

\* Other forms a handler comes in: a coroutine function, a plain function
\* that returns the coroutine of a coroutine function (lambda e: co(e)), an
\* object whose __call__ is a coroutine function, and a FuncEventHandler
\* object.
HandlerForms == {"co_ok", "wrap_ok", "obj_co", "eh_ok"}

\* asyncio.iscoroutinefunction(handler): true of `async def` functions only.
iscoroutinefunction(h) == h \in {"co_ok", "co_err"}
\* EventHandler and FuncEventHandler define handle and can_handle and no
\* __call__.
callable(h) == h # "eh_ok"
\* handler(event) raises: the handler's own Exception, or the TypeError of
\* calling an object that is not callable.
Raises(h) == h \in {"f_err", "co_err"} \/ ~callable(h)
\* handler(event) gives a coroutine object although
\* iscoroutinefunction(handler) is false.
ReturnsPending(h) == h \in {"wrap_ok", "obj_co"}
\* A coroutine object nobody has awaited.
Pending(h, ev) == <<"pending", h, ev.data>>
\* What the handler's work results in (distinct per handler and payload):
\* the value a function returns, a coroutine resolves to.
Resolved(h, ev) == <<h, ev.data>>
\* What line 97 gets from handler h for event ev.
ReturnValue(h, ev) == IF ReturnsPending(h) THEN Pending(h, ev) ELSE Resolved(h, ev)
\* The exception handler h raises (an Exception subclass instance).
Raised(h) == <<"Exception", h>>

Event(t, d, p) == [event_type |-> t, data |-> d, priority |-> p]
Events == {Event(t, d, p) : t \in Types, d \in 0..MaxData, p \in EventPriority}

----------------------------------------------------------------------------
(* EventBus                                                                *)

\* EventBus.__init__
NewBus == << >>

\* Mutant of subscribe: a handler already in the type's list is not added again.
subscribe_once(d, event_type, handler) ==
  LET d1 == IF event_type \in DOMAIN d THEN d ELSE d @@ (event_type :> << >>)
  IN  IF \E k \in 1..Len(d1[event_type]) : d1[event_type][k] = handler
      THEN d1
      ELSE [d1 EXCEPT ![event_type] = Append(@, handler)]

\* EventBus.subscribe: create the list if absent, append the handler.
subscribe(d, event_type, handler) ==
  LET d1 == IF event_type \in DOMAIN d THEN d ELSE d @@ (event_type :> << >>)
  IN  [d1 EXCEPT ![event_type] = Append(@, handler)]

\* A reference to a list: the list stored in the dict under key (live), or a
\* list of the caller's own (the fresh [] that dict.get returns by default).
LiveRef(k) == [live |-> TRUE, key |-> k, own |-> << >>]
FreshRef(k) == [live |-> FALSE, key |-> k, own |-> << >>]
Deref(d, ref) == IF ref.live THEN d[ref.key] ELSE ref.own
\* No list has been handed to the caller of get_handlers.
NoList == [none |-> TRUE]

\* Mutant of dict_get: setdefault, which stores the new list under the key.
dict_setdefault(d, k) ==
  [dict |-> IF k \in DOMAIN d THEN d ELSE d @@ (k :> << >>), ref |-> LiveRef(k)]

\* self._handlers.get(event_type, []): the dict afterwards and the list got.
dict_get(d, k) ==
  [dict |-> d, ref |-> IF k \in DOMAIN d THEN LiveRef(k) ELSE FreshRef(k)]

\* EventBus.get_handlers
get_handlers(d, event_type) == Deref(d, dict_get(d, event_type).ref)

\* except Exception: every Exception instance is caught.
IsException(e) == e[1] = "Exception"

IdleFrame == [pc |-> "idle"]

\* publish, lines 93-94: look the handlers up, start with no results.
\* atcall is history: the handlers the list held when publish was called.
PublishFrame(ev, ref) ==
  [pc |-> "loop", event |-> ev, handlers |-> ref, i |-> 0, results |-> << >>,
   trace |-> << >>, printed |-> 0, cur |-> "none", atcall |-> << >>]

\* Mutant of NextHandler: the list is walked from its end.
NextHandlerReversed(d, f) ==
  Deref(d, f.handlers)[Len(Deref(d, f.handlers)) - f.i]

\* The list iterator of `for handler in handlers`: the element at position i+1
\* of the list as it is now.
HasNext(d, f) == f.i < Len(Deref(d, f.handlers))
NextHandler(d, f) == Deref(d, f.handlers)[f.i + 1]

\* Line 97, the call itself: the handler starts running.
OnCall(f, h) == [f EXCEPT !.i = @ + 1, !.trace = Append(@, <<"call", h>>), !.cur = h]

\* Line 98: the handler returned r.
OnReturn(f, h, r) ==
  [f EXCEPT !.results = Append(@, r), !.trace = Append(@, <<"ret", h>>),
            !.cur = "none", !.pc = "loop"]

\* Mutant of OnRaise: the exception is not caught and ends publish.
OnRaisePropagate(f, h, e) ==
  [f EXCEPT !.trace = Append(@, <<"exc", h>>), !.cur = "none", !.pc = "raised"]

\* Lines 99-100: the handler raised e; an Exception is printed and dropped.
OnRaise(f, h, e) ==
  IF IsException(e)
  THEN [f EXCEPT !.printed = @ + 1, !.trace = Append(@, <<"exc", h>>),
                 !.cur = "none", !.pc = "loop"]
  ELSE [f EXCEPT !.trace = Append(@, <<"exc", h>>), !.cur = "none",
                 !.pc = "raised"]

\* The handler ran to its end: it returned or raised.
OnComplete(f, h) ==
  IF Raises(h) THEN OnRaise(f, h, Raised(h))
  ELSE OnReturn(f, h, ReturnValue(h, f.event))

TotalSubs == LET RECURSIVE Sum(_)
                 Sum(S) == IF S = {} THEN 0
                           ELSE LET k == CHOOSE x \in S : TRUE
                                IN Len(subscribed[k]) + Sum(S \ {k})
             IN Sum(Types)

\* bus.subscribe(event_type, handler), called by the program between tasks' steps.
Subscribe(t, h) ==
  /\ cpu = "none"
  /\ TotalSubs < MaxSubs
  /\ bus_handlers' = subscribe(bus_handlers, t, h)
  /\ subscribed' = [subscribed EXCEPT ![t] = Append(@, h)]
  /\ UNCHANGED <<cpu, pub, held, pipeVars, drv, streamVars>>

\* A task calls bus.publish(ev): lines 93-94.
PublishCall(p, ev) ==
  /\ cpu = "none"
  /\ pub[p].pc = "idle"
  /\ LET got == dict_get(bus_handlers, ev.event_type)
     IN  /\ bus_handlers' = got.dict
         /\ pub' = [pub EXCEPT ![p] =
                       [PublishFrame(ev, got.ref) EXCEPT
                          !.atcall = Deref(got.dict, got.ref)]]
  /\ cpu' = p
  /\ UNCHANGED <<subscribed, held, pipeVars, drv, streamVars>>

\* The loop takes the next handler and it is a plain function: line 97, left arm.
PublishSync(p) ==
  /\ cpu = p
  /\ pub[p].pc = "loop"
  /\ HasNext(bus_handlers, pub[p])
  /\ LET h == NextHandler(bus_handlers, pub[p])
     IN  /\ ~iscoroutinefunction(h)
         /\ pub' = [pub EXCEPT ![p] = OnComplete(OnCall(@, h), h)]
  /\ UNCHANGED <<cpu, bus_handlers, subscribed, held, pipeVars, drv, streamVars>>

\* The next handler is a coroutine function and runs to its end without
\* suspending: line 97, right arm.
PublishAsyncNow(p) ==
  /\ cpu = p
  /\ pub[p].pc = "loop"
  /\ HasNext(bus_handlers, pub[p])
  /\ LET h == NextHandler(bus_handlers, pub[p])
     IN  /\ iscoroutinefunction(h)
         /\ pub' = [pub EXCEPT ![p] = OnComplete(OnCall(@, h), h)]
  /\ UNCHANGED <<cpu, bus_handlers, subscribed, held, pipeVars, drv, streamVars>>

\* The next handler is a coroutine function and suspends: publish is suspended
\* in `await handler(event)` and gives up the interpreter.
PublishAwait(p) ==
  /\ cpu = p
  /\ pub[p].pc = "loop"
  /\ HasNext(bus_handlers, pub[p])
  /\ LET h == NextHandler(bus_handlers, pub[p])
     IN  /\ iscoroutinefunction(h)
         /\ pub' = [pub EXCEPT ![p] = [OnCall(@, h) EXCEPT !.pc = "await"]]
  /\ cpu' = "none"
  /\ UNCHANGED <<bus_handlers, subscribed, held, pipeVars, drv, streamVars>>

\* The awaited handler finishes and publish resumes.
PublishResume(p) ==
  /\ cpu = "none"
  /\ pub[p].pc = "await"
  /\ pub' = [pub EXCEPT ![p] = OnComplete(@, @.cur)]
  /\ cpu' = p
  /\ UNCHANGED <<bus_handlers, subscribed, held, pipeVars, drv, streamVars>>

\* The iterator is exhausted: line 101, return results.
PublishReturn(p) ==
  /\ cpu = p
  /\ pub[p].pc = "loop"
  /\ ~HasNext(bus_handlers, pub[p])
  /\ pub' = [pub EXCEPT ![p].pc = "done"]
  /\ cpu' = "none"
  /\ UNCHANGED <<bus_handlers, subscribed, held, pipeVars, drv, streamVars>>

\* The caller has taken the outcome of publish; the task may publish again.
PublishForget(p) ==
  /\ cpu = "none"
  /\ pub[p].pc \in {"done", "raised"}
  /\ pub' = [pub EXCEPT ![p] = IdleFrame]
  /\ UNCHANGED <<cpu, bus_handlers, subscribed, held, pipeVars, drv, streamVars>>

\* The handler a holder of the list got from get_handlers puts into it, and
\* the handler that is subscribed meanwhile.
HeldPool == {"f_ok"}
SubscribedPool == {"co_ok"}

\* A caller calls bus.get_handlers(t) and keeps what it returns: the list
\* stored under t, or the new [] of the default.  One such call per run.
GetHandlers(t) ==
  /\ cpu = "none"
  /\ held = NoList
  /\ LET got == dict_get(bus_handlers, t)
     IN  /\ bus_handlers' = got.dict
         /\ held' = got.ref
  /\ UNCHANGED <<cpu, subscribed, pub, pipeVars, drv, streamVars>>

\* The caller appends h to the list it holds.
HeldAppend(h) ==
  /\ cpu = "none"
  /\ held # NoList
  /\ Len(Deref(bus_handlers, held)) < MaxSubs
  /\ IF held.live
     THEN /\ bus_handlers' = [bus_handlers EXCEPT ![held.key] = Append(@, h)]
          /\ UNCHANGED held
     ELSE /\ held' = [held EXCEPT !.own = Append(@, h)]
          /\ UNCHANGED bus_handlers
  /\ UNCHANGED <<cpu, subscribed, pub, pipeVars, drv, streamVars>>

\* The caller removes the last element of the list it holds.
HeldPop ==
  /\ cpu = "none"
  /\ held # NoList
  /\ Deref(bus_handlers, held) # << >>
  /\ LET shorter(l) == SubSeq(l, 1, Len(l) - 1)
     IN  IF held.live
         THEN /\ bus_handlers' = [bus_handlers EXCEPT ![held.key] = shorter(@)]
              /\ UNCHANGED held
         ELSE /\ held' = [held EXCEPT !.own = shorter(@)]
              /\ UNCHANGED bus_handlers
  /\ UNCHANGED <<cpu, subscribed, pub, pipeVars, drv, streamVars>>

InitBus ==
  /\ bus_handlers = NewBus
  /\ subscribed = [t \in Types |-> << >>]
  /\ pub = [p \in PubTasks |-> IdleFrame]
  /\ held = NoList

----------------------------------------------------------------------------
(* Pipeline, PipelineStage, PipelineBuilder                                *)

MaxStages == 3    \* add_stage and builder.stage calls altogether
MaxInput == 3     \* execute is called with initial data 0..MaxInput
MaxBuilt == 2     \* pipelines built by the builder

ExecTasks == {"e1", "e2"}

\* Stage handlers a caller may supply: double (a function, x -> 2x), inc_co
\* (a coroutine function, x -> x+1), boom (a function that raises) and
\* boom_co (a coroutine function that raises).
h_iscoroutinefunction(h) == h \in {"inc_co", "boom_co", "picky_co"}
h_raises(h) == h \in {"boom", "boom_co"}
h_value(h, x) == IF h = "double" THEN 2 * x ELSE x + 1

\* Stage conditions: "none" is None (no condition), gt1 is x -> x > 1,
\* cond_err is a function that raises, gt1_co is the coroutine function
\* `async def gt1_co(x): return x > 1`.
c_raises(c) == c = "cond_err"
\* What the condition decides about x: what the function returns, what the
\* coroutine of a coroutine function resolves to.
c_value(c, x) == x > 1
\* Calling the condition gives a coroutine object.
c_iscoroutinefunction(c) == c = "gt1_co"

\* PipelineStage(name, handler, condition)
PipelineStage(n, h, c) == [name |-> n, handler |-> h, condition |-> c]

StagePool ==
  { PipelineStage("s", "double", "none"),  PipelineStage("s", "inc_co", "none"),
    PipelineStage("s", "double", "gt1"),   PipelineStage("s", "inc_co", "gt1"),
    PipelineStage("s", "boom", "none"),    PipelineStage("s", "boom_co", "gt1"),
    PipelineStage("s", "double", "cond_err") }

\* Stages whose condition is a coroutine function, beside one whose
\* condition is a function.
StagePoolCo ==
  { PipelineStage("s", "double", "gt1_co"), PipelineStage("s", "inc_co", "gt1_co"),
    PipelineStage("s", "double", "gt1") }

\* The stages used where two executions interleave.
StagePool2 ==
  { PipelineStage("s", "double", "none"),  PipelineStage("s", "inc_co", "none"),
    PipelineStage("s", "inc_co", "gt1"),   PipelineStage("s", "boom_co", "gt1") }

BuilderHandlers == {"double", "inc_co"}

\* Mutant of EvalCondition: the condition is never consulted.
EvalConditionIgnored(st, d) == "absent"

\* PipelineStage.execute, line 21: `self.condition and not self.condition(data)`.
\* "absent": there is no condition; "raised": calling it raised; otherwise
\* the truth of what it returned.
\* self.condition(data) is not awaited: of a coroutine function it is a
\* coroutine object, and `not` of an object without __bool__ and __len__ is
\* False.
EvalCondition(st, d) ==
  IF st.condition = "none" THEN "absent"
  ELSE IF c_raises(st.condition) THEN "raised"
  ELSE IF c_iscoroutinefunction(st.condition) THEN "true"
  ELSE IF c_value(st.condition, d) THEN "true" ELSE "false"

IdleExec == [pc |-> "idle"]

\* Pipeline.execute, lines 59-60: data = initial_data, iterate self.stages.
ExecFrame(pl, ref, d) ==
  [pc |-> "loop", pipe |-> pl, stages |-> ref, i |-> 0, d0 |-> d, data |-> d,
   visits |-> << >>, ret |-> << >>, exc |-> << >>]

\* Mutant of StageInput: every stage is given the initial data.
StageInputInitial(ex, e) == ex[e].d0

\* Mutant of StageInput: data is kept on the pipeline, so an execution reads
\* what another running execution of the pipeline stored last.
StageInputShared(ex, e) ==
  IF \E o \in DOMAIN ex : o # e /\ ex[o].pc \in {"loop", "call", "await"}
                          /\ ex[o].pipe = ex[e].pipe
  THEN LET o == CHOOSE o \in DOMAIN ex :
                  o # e /\ ex[o].pc \in {"loop", "call", "await"}
                        /\ ex[o].pipe = ex[e].pipe
       IN ex[o].data
  ELSE ex[e].data

\* Line 61, `stage.execute(data)`, and line 62, `return data`: the value of
\* the local variable data of this call of execute.
StageInput(ex, e) == ex[e].data

\* The list iterator of `for stage in self.stages`.
HasNextStage(ls, f) == f.i < Len(ls[f.stages])
NextStage(ls, f) == ls[f.stages][f.i + 1]

\* Mutant of OnStageRaise: the failure is dropped and the loop goes on.
OnStageRaiseContinue(f, e) == [f EXCEPT !.pc = "loop"]

\* Neither PipelineStage.execute nor Pipeline.execute catches: the exception
\* leaves execute.
OnStageRaise(f, e) == [f EXCEPT !.pc = "failed", !.exc = <<e>>]

\* One record per stage the loop has reached: its position, the data it was
\* given, how its condition came out, how often its handler was called and
\* what the stage returned.
Visit(k, d, c) ==
  [k |-> k, inp |-> d, cond |-> c, calls |-> 0, out |-> << >>, state |-> "entered"]

\* PipelineStage.execute up to the call of the handler (lines 21-22 and the
\* call in 25 or 26), on data d.
Enter(f, st, d) ==
  LET c == EvalCondition(st, d)
      k == f.i + 1
      v == Visit(k, d, c)
  IN  CASE c = "raised" ->
             OnStageRaise([f EXCEPT !.i = k,
                                    !.visits = Append(@, [v EXCEPT !.state = "raised"])],
                          <<"Exception", "condition", k>>)
        [] c = "false" ->
             [f EXCEPT !.i = k, !.data = d,
                       !.visits = Append(@, [v EXCEPT !.state = "skipped", !.out = <<d>>])]
        [] OTHER ->
             [f EXCEPT !.i = k, !.pc = "call",
                       !.visits = Append(@, [v EXCEPT !.calls = 1, !.state = "running"])]

\* The handler of the stage being visited runs to its end (lines 25-26) and
\* execute assigns what the stage returned to data (line 61).
Finish(f, st) ==
  LET k == Len(f.visits)
      v == f.visits[k]
  IN  IF h_raises(st.handler)
      THEN OnStageRaise([f EXCEPT !.visits[k].state = "raised"],
                        <<"Exception", "handler", k>>)
      ELSE LET out == h_value(st.handler, v.inp)
           IN [f EXCEPT !.pc = "loop", !.data = out,
                        !.visits[k].state = "returned", !.visits[k].out = <<out>>]

\* Pipeline.__init__: a pipeline with a new, empty stage list.
NewPipeline(ls) == [lists |-> Append(ls, << >>), stages |-> Len(ls) + 1]

\* Pipeline.add_stage, lines 53-54: append the stage to the list.
add_stage(l, st) == Append(l, st)
\* Pipeline.add_stage, line 55: return self.
add_stage_return(pl) == pl

\* PipelineBuilder.stage, line 77 (line 78 returns the builder).
builder_stage(l, n, h) == Append(l, PipelineStage(n, h, "none"))

\* PipelineBuilder.build: the new pipeline's stages attribute is set to the
\* builder's own list object (line 83); the list made by Pipeline.__init__
\* is dropped.
build(ls, b) == [lists |-> ls, stages |-> b]

StagesOf(pl) == lists[pipes[pl]]

TotalStages ==
  LET RECURSIVE Sum(_)
      Sum(k) == IF k = 0 THEN 0 ELSE Len(lists[k]) + Sum(k - 1)
  IN  Sum(Len(lists))

\* pipeline.add_stage(name, handler, condition), called by the program.
AddStage(pl, st) ==
  /\ cpu = "none"
  /\ TotalStages < MaxStages
  /\ lists' = [lists EXCEPT ![pipes[pl]] = add_stage(@, st)]
  /\ expected' = [expected EXCEPT ![pl] = Append(@, st)]
  /\ chain' = [target |-> pl, returned |-> add_stage_return(pl)]
  /\ UNCHANGED <<cpu, busVars, pipes, builder, recorded, exec, drv, streamVars>>

\* builder.stage(name, handler)
BuilderStage(h) ==
  /\ cpu = "none"
  /\ TotalStages < MaxStages
  /\ lists' = [lists EXCEPT ![builder] = builder_stage(@, "s", h)]
  /\ recorded' = Append(recorded, PipelineStage("s", h, "none"))
  /\ UNCHANGED <<cpu, busVars, pipes, builder, expected, chain, exec, drv, streamVars>>

\* builder.build()
Build ==
  /\ cpu = "none"
  /\ Len(pipes) < 1 + MaxBuilt
  /\ LET b == build(lists, builder)
     IN  /\ lists' = b.lists
         /\ pipes' = Append(pipes, b.stages)
  /\ expected' = Append(expected, recorded)
  /\ UNCHANGED <<cpu, busVars, builder, recorded, chain, exec, drv, streamVars>>

\* A task calls pipeline.execute(d).
ExecCall(e, pl, d) ==
  /\ cpu = "none"
  /\ exec[e].pc = "idle"
  /\ exec' = [exec EXCEPT ![e] = ExecFrame(pl, pipes[pl], d)]
  /\ cpu' = e
  /\ UNCHANGED <<busVars, lists, pipes, builder, expected, recorded, chain, drv, streamVars>>

\* The loop reaches the next stage and the stage is done without an await:
\* its condition is false or raises, or its handler is a plain function.
ExecStep(e) ==
  /\ cpu = e
  /\ exec[e].pc = "loop"
  /\ HasNextStage(lists, exec[e])
  /\ LET st == NextStage(lists, exec[e])
         f1 == Enter(exec[e], st, StageInput(exec, e))
         f2 == IF f1.pc = "call" THEN Finish(f1, st) ELSE f1
     IN  /\ ~(f1.pc = "call" /\ h_iscoroutinefunction(st.handler))
         /\ exec' = [exec EXCEPT ![e] = f2]
         /\ cpu' = IF f2.pc = "failed" THEN "none" ELSE e
  /\ UNCHANGED <<busVars, lists, pipes, builder, expected, recorded, chain, drv, streamVars>>

\* The stage's handler is a coroutine function that ends without suspending.
ExecAsyncNow(e) ==
  /\ cpu = e
  /\ exec[e].pc = "loop"
  /\ HasNextStage(lists, exec[e])
  /\ LET st == NextStage(lists, exec[e])
         f1 == Enter(exec[e], st, StageInput(exec, e))
         f2 == Finish(f1, st)
     IN  /\ f1.pc = "call" /\ h_iscoroutinefunction(st.handler)
         /\ exec' = [exec EXCEPT ![e] = f2]
         /\ cpu' = IF f2.pc = "failed" THEN "none" ELSE e
  /\ UNCHANGED <<busVars, lists, pipes, builder, expected, recorded, chain, drv, streamVars>>

\* The stage's handler is a coroutine function that suspends: execute waits
\* in `await self.handler(data)` and gives up the interpreter.
ExecAwait(e) ==
  /\ cpu = e
  /\ exec[e].pc = "loop"
  /\ HasNextStage(lists, exec[e])
  /\ LET st == NextStage(lists, exec[e])
         f1 == Enter(exec[e], st, StageInput(exec, e))
     IN  /\ f1.pc = "call" /\ h_iscoroutinefunction(st.handler)
         /\ exec' = [exec EXCEPT ![e] = [f1 EXCEPT !.pc = "await"]]
  /\ cpu' = "none"
  /\ UNCHANGED <<busVars, lists, pipes, builder, expected, recorded, chain, drv, streamVars>>

\* The awaited handler finishes and execute resumes.
ExecResume(e) ==
  /\ cpu = "none"
  /\ exec[e].pc = "await"
  /\ LET f == exec[e]
         f2 == Finish(f, lists[f.stages][f.i])
     IN  /\ exec' = [exec EXCEPT ![e] = f2]
         /\ cpu' = IF f2.pc = "failed" THEN "none" ELSE e
  /\ UNCHANGED <<busVars, lists, pipes, builder, expected, recorded, chain, drv, streamVars>>

\* The iterator is exhausted: line 62, return data.
ExecReturn(e) ==
  /\ cpu = e
  /\ exec[e].pc = "loop"
  /\ ~HasNextStage(lists, exec[e])
  /\ exec' = [exec EXCEPT ![e].pc = "done", ![e].ret = <<StageInput(exec, e)>>]
  /\ cpu' = "none"
  /\ UNCHANGED <<busVars, lists, pipes, builder, expected, recorded, chain, drv, streamVars>>

\* The caller has taken the outcome of execute; the task may call it again.
ExecForget(e) ==
  /\ cpu = "none"
  /\ exec[e].pc \in {"done", "failed"}
  /\ exec' = [exec EXCEPT ![e] = IdleExec]
  /\ UNCHANGED <<cpu, busVars, lists, pipes, builder, expected, recorded, chain, drv, streamVars>>

\* One Pipeline() and one PipelineBuilder() have been constructed.
InitPipe ==
  /\ lists = << << >>, << >> >>
  /\ pipes = <<1>>
  /\ builder = 2
  /\ expected = << << >> >>
  /\ recorded = << >>
  /\ chain = [target |-> 0, returned |-> 0]
  /\ exec = [e \in ExecTasks |-> IdleExec]

----------------------------------------------------------------------------
(* process_stream                                                          *)

MaxItems == 3     \* items a source yields
MaxProcs == 2     \* processors given to process_stream

ItemValues == {1, 2, 3}
\* Processors are callables like the stage handlers: double, inc_co, boom,
\* and picky_co, a coroutine function that raises on an input above 2 and
\* returns x + 1 otherwise.
ProcPool == {"double", "inc_co", "boom", "picky_co"}
\* sink=None, a sink that keeps what it consumes, a sink whose consume raises
\* on a value above 3 and keeps the others.
\* Both sinks are Sink objects, which define neither __bool__ nor __len__.
SinkPool == {"none", "capture", "fussy"}

SeqsUpTo(S, n) == UNION {[1..k -> S] : k \in 0..n}

\* `if sink:` (line 111): None is false, a Sink object is true.
Truthy(sink) == sink # "none"
\* consume(x) of the sink raises.
consume_raises(sink, x) == sink = "fussy" /\ x > 3
\* The processor raises when called with x.
p_raises(p, x) == h_raises(p) \/ (p = "picky_co" /\ x > 2)

IdleDriver == [pc |-> "idle"]

\* Line 101 and the start of the loop of line 103.
DriverFrame(items, procs, sink) ==
  [pc |-> "next", items |-> items, pos |-> 0, procs |-> procs, j |-> 0,
   data |-> 0, results |-> << >>, sink |-> sink, sunk |-> << >>,
   log |-> << >>, exc |-> << >>]

\* ListSource.produce: the items of the list, one after the other.
SourceHasNext(f) == f.pos < Len(f.items)
SourceNext(f) == f.items[f.pos + 1]

\* Lines 103-104: the source yields an item; data = item.
OnItem(f) ==
  [f EXCEPT !.pos = @ + 1, !.data = SourceNext(f), !.j = 0, !.pc = "proc",
            !.log = Append(@, <<"take", f.pos + 1>>)]

\* Mutant of NextProc: the processors are applied last to first.
NextProcReversed(f) == f.procs[Len(f.procs) - f.j]

\* The loop of line 105: the processors in the order given.
NextProc(f) == f.procs[f.j + 1]

\* Mutant of OnDriverRaise: the failure is dropped with the item and the
\* loop goes on to the next item.
OnDriverRaiseSkip(f, e) == [f EXCEPT !.pc = "next"]

\* A processor or the sink raised: nothing catches it, process_stream fails.
OnDriverRaise(f, e) == [f EXCEPT !.pc = "failed", !.exc = <<e>>]

\* Lines 106-109: the processor ran to its end; data = what it returned.
OnProcDone(f, p) ==
  IF p_raises(p, f.data)
  THEN OnDriverRaise([f EXCEPT !.j = @ + 1],
                     <<"Exception", "processor", f.j + 1, f.pos>>)
  ELSE [f EXCEPT !.j = @ + 1, !.data = h_value(p, f.data), !.pc = "proc"]

\* Line 114: results.append(data), and on to the next item.
OnAppend(f) == [f EXCEPT !.results = Append(@, f.data), !.pc = "next"]

\* Line 112: sink.consume(data) is called.
OnConsumeCall(f) == [f EXCEPT !.log = Append(@, <<"deliver", f.pos>>)]

\* Line 112: sink.consume(data) ran to its end; then line 114.
OnConsumed(f) ==
  IF consume_raises(f.sink, f.data)
  THEN OnDriverRaise(f, <<"Exception", "sink", 0, f.pos>>)
  ELSE OnAppend([f EXCEPT !.sunk = Append(@, f.data),
                          !.log = Append(@, <<"delivered", f.pos>>)])

\* Line 116: return results.
OnExhausted(f) == [f EXCEPT !.pc = "done", !.log = Append(@, <<"return", 0>>)]

\* A task calls process_stream(source, *procs, sink=sink).
DriverCall(items, procs, sink) ==
  /\ cpu = "none"
  /\ drv.pc = "idle"
  /\ drv' = DriverFrame(items, procs, sink)
  /\ cpu' = "drv"
  /\ UNCHANGED <<busVars, pipeVars, streamVars>>

\* The source yields its next item.
DriverTake ==
  /\ cpu = "drv"
  /\ drv.pc = "next"
  /\ SourceHasNext(drv)
  /\ drv' = OnItem(drv)
  /\ UNCHANGED <<cpu, busVars, pipeVars, streamVars>>

\* The source is exhausted and process_stream returns.
DriverReturn ==
  /\ cpu = "drv"
  /\ drv.pc = "next"
  /\ ~SourceHasNext(drv)
  /\ drv' = OnExhausted(drv)
  /\ cpu' = "none"
  /\ UNCHANGED <<busVars, pipeVars, streamVars>>

\* The next processor is a plain function (line 109).
DriverProcSync ==
  /\ cpu = "drv"
  /\ drv.pc = "proc"
  /\ drv.j < Len(drv.procs)
  /\ ~h_iscoroutinefunction(NextProc(drv))
  /\ LET f2 == OnProcDone(drv, NextProc(drv))
     IN  /\ drv' = f2
         /\ cpu' = IF f2.pc = "failed" THEN "none" ELSE "drv"
  /\ UNCHANGED <<busVars, pipeVars, streamVars>>

\* The next processor is a coroutine function that ends without suspending
\* (line 107).
DriverProcAsyncNow ==
  /\ cpu = "drv"
  /\ drv.pc = "proc"
  /\ drv.j < Len(drv.procs)
  /\ h_iscoroutinefunction(NextProc(drv))
  /\ LET f2 == OnProcDone(drv, NextProc(drv))
     IN  /\ drv' = f2
         /\ cpu' = IF f2.pc = "failed" THEN "none" ELSE "drv"
  /\ UNCHANGED <<busVars, pipeVars, streamVars>>

\* The next processor is a coroutine function that suspends (line 107).
DriverProcAwait ==
  /\ cpu = "drv"
  /\ drv.pc = "proc"
  /\ drv.j < Len(drv.procs)
  /\ h_iscoroutinefunction(NextProc(drv))
  /\ drv' = [drv EXCEPT !.pc = "proc_wait"]
  /\ cpu' = "none"
  /\ UNCHANGED <<busVars, pipeVars, streamVars>>

\* The awaited processor finishes.
DriverProcResume ==
  /\ cpu = "none"
  /\ drv.pc = "proc_wait"
  /\ LET f2 == OnProcDone(drv, NextProc(drv))
     IN  /\ drv' = f2
         /\ cpu' = IF f2.pc = "failed" THEN "none" ELSE "drv"
  /\ UNCHANGED <<busVars, pipeVars, streamVars>>

\* All processors are done and `if sink:` is false: line 114 alone.
DriverNoSink ==
  /\ cpu = "drv"
  /\ drv.pc = "proc"
  /\ drv.j = Len(drv.procs)
  /\ ~Truthy(drv.sink)
  /\ drv' = OnAppend(drv)
  /\ UNCHANGED <<cpu, busVars, pipeVars, streamVars>>

\* All processors are done and consume ends without suspending.
DriverSinkNow ==
  /\ cpu = "drv"
  /\ drv.pc = "proc"
  /\ drv.j = Len(drv.procs)
  /\ Truthy(drv.sink)
  /\ LET f2 == OnConsumed(OnConsumeCall(drv))
     IN  /\ drv' = f2
         /\ cpu' = IF f2.pc = "failed" THEN "none" ELSE "drv"
  /\ UNCHANGED <<busVars, pipeVars, streamVars>>

\* All processors are done and consume suspends.
DriverSinkAwait ==
  /\ cpu = "drv"
  /\ drv.pc = "proc"
  /\ drv.j = Len(drv.procs)
  /\ Truthy(drv.sink)
  /\ drv' = [OnConsumeCall(drv) EXCEPT !.pc = "sink_wait"]
  /\ cpu' = "none"
  /\ UNCHANGED <<busVars, pipeVars, streamVars>>

\* The awaited consume finishes.
DriverSinkResume ==
  /\ cpu = "none"
  /\ drv.pc = "sink_wait"
  /\ LET f2 == OnConsumed(drv)
     IN  /\ drv' = f2
         /\ cpu' = IF f2.pc = "failed" THEN "none" ELSE "drv"
  /\ UNCHANGED <<busVars, pipeVars, streamVars>>

\* The caller has taken the outcome; process_stream may be called again.
DriverForget ==
  /\ cpu = "none"
  /\ drv.pc \in {"done", "failed"}
  /\ drv' = IdleDriver
  /\ UNCHANGED <<cpu, busVars, pipeVars, streamVars>>

\* Some call of process_stream: any source list, processors and sink.
DriverStart ==
  /\ drv.pc = "idle"
  /\ \E items \in SeqsUpTo(ItemValues, MaxItems),
        procs \in SeqsUpTo(ProcPool, MaxProcs),
        sink \in SinkPool : DriverCall(items, procs, sink)

InitDriver == drv = IdleDriver

----------------------------------------------------------------------------
(* Stream                                                                  *)

MaxStreams == 3   \* Stream objects made in one run

\* Element values: integers, text, bytes and lists of values.
IntVal(n) == <<"int", n>>
StrVal(s) == <<"str", s>>
BytesVal(s) == <<"bytes", s>>
ListVal(xs) == <<"list", xs>>

\* The element sequences a program passes to Stream(...).
RootInputs ==
  { << >>,
    <<IntVal(1)>>,
    <<IntVal(2), IntVal(1)>>,
    <<IntVal(1), IntVal(2), IntVal(3)>>,
    <<ListVal(<<IntVal(1), IntVal(2)>>), ListVal(<<IntVal(3)>>)>> }
\* What carries them: a list, an iterator over them (a generator, iter(...)),
\* or no argument at all (data=None).
RootKinds == {"list", "iter", "none"}

\* Functions given to map: x * 2 and x + 1 on integers.
MapFuncs == {"double", "inc"}
MapApply(f, x) == IF f = "double" THEN IntVal(2 * x[2]) ELSE IntVal(x[2] + 1)
\* Predicates given to filter: x > 1 and x % 2 == 0 on integers.
PredFuncs == {"gt1", "even"}
PredApply(p, x) == IF p = "gt1" THEN x[2] > 1 ELSE x[2] % 2 = 0
\* Functions given to flat_map: [x, x], x itself, [[x], x], [], "ab", b"ab".
FlatFuncs == {"dup", "same", "nest", "empty", "text", "raw"}
FlatApply(f, x) ==
  CASE f = "dup" -> ListVal(<<x, x>>)
    [] f = "same" -> x
    [] f = "nest" -> ListVal(<<ListVal(<<x>>), x>>)
    [] f = "empty" -> ListVal(<< >>)
    [] f = "text" -> StrVal("ab")
    [] f = "raw" -> BytesVal("ab")

IsInt(x) == x[1] = "int"
AllInts(xs) == \A k \in 1..Len(xs) : IsInt(xs[k])

\* hasattr(r, '__iter__'): lists, text and bytes have it, integers do not.
hasattr_iter(r) == r[1] \in {"list", "str", "bytes"}
\* isinstance(r, (str, bytes))
isinstance_str_bytes(r) == r[1] \in {"str", "bytes"}

\* The objects of the heap.
ListObj(xs) == [kind |-> "list", elems |-> xs]
\* An iterator holds what it has yet to yield.
IterObj(xs) == [kind |-> "iter", elems |-> xs]
None == 0

\* bool(data): None and an empty list are false; an iterator is an object
\* without __bool__ and __len__, so it is true whatever it has left.
bool(h, ref) == ref # None /\ (h[ref].kind = "iter" \/ h[ref].elems # << >>)

\* Line 21: self._data = data or [].
Stream_init(h, ref) ==
  IF bool(h, ref) THEN [heap |-> h, data |-> ref]
  ELSE [heap |-> Append(h, ListObj(<< >>)), data |-> Len(h) + 1]

\* `for x in self._data` run to its end: a list yields its elements and
\* stays as it is, an iterator yields what it has left and is then empty.
Traverse(h, ref) ==
  [out |-> h[ref].elems,
   heap |-> IF h[ref].kind = "iter" THEN [h EXCEPT ![ref].elems = << >>]
            ELSE h]

\* Mutant of MapList: the results are collected last to first.
RECURSIVE MapListReversed(_, _)
MapListReversed(f, xs) ==
  IF xs = << >> THEN << >>
  ELSE Append(MapListReversed(f, Tail(xs)), MapApply(f, Head(xs)))

\* Line 25: [func(x) for x in self._data].
RECURSIVE MapList(_, _)
MapList(f, xs) ==
  IF xs = << >> THEN << >>
  ELSE <<MapApply(f, Head(xs))>> \o MapList(f, Tail(xs))

\* Line 29: [x for x in self._data if predicate(x)].
RECURSIVE FilterList(_, _)
FilterList(p, xs) ==
  IF xs = << >> THEN << >>
  ELSE IF PredApply(p, Head(xs)) THEN <<Head(xs)>> \o FilterList(p, Tail(xs))
  ELSE FilterList(p, Tail(xs))

\* Mutant of FlatStep: every value is appended as one element.
FlatStepAppend(result, r) == Append(result, r)

\* Lines 36-39: result.extend(r) or result.append(r).
FlatStep(result, r) ==
  IF hasattr_iter(r) /\ ~isinstance_str_bytes(r) THEN result \o r[2]
  ELSE Append(result, r)

\* Lines 33-39: the loop over self._data, result being the list so far.
RECURSIVE FlatList(_, _, _)
FlatList(f, xs, result) ==
  IF xs = << >> THEN result
  ELSE FlatList(f, Tail(xs), FlatStep(result, FlatApply(f, Head(xs))))

\* What map, filter and flat_map return after traversal t of the receiver:
\* the results are a new list, and a Stream is made of it (lines 25, 29, 40).
MakeStream(t, made) ==
  LET h2 == Append(t.heap, ListObj(made))
  IN  Stream_init(h2, Len(h2))

stream_map(h, ref, f) ==
  LET t == Traverse(h, ref) IN MakeStream(t, MapList(f, t.out))
stream_filter(h, ref, p) ==
  LET t == Traverse(h, ref) IN MakeStream(t, FilterList(p, t.out))
stream_flat_map(h, ref, f) ==
  LET t == Traverse(h, ref) IN MakeStream(t, FlatList(f, t.out, << >>))

\* Lines 42-44: collect returns self._data, the object itself.
collect(h, ref) == ref
\* Lines 46-47: iter(self._data); the caller runs it to its end.
stream_iter(h, ref) == Traverse(h, ref)

\* A Stream object and its history: how it was made (op, fn, from which
\* receiver), what the receiver yielded to the call (arg), and the elements
\* it was made with (orig).
StreamObj(ref, op, fn, recv, arg, orig) ==
  [data |-> ref, op |-> op, fn |-> fn, recv |-> recv, arg |-> arg,
   orig |-> orig]

NoTraversal == [op |-> "none"]

\* Stream(data), data being a list, an iterator or None.
StreamNew(xs, kind) ==
  /\ cpu = "none"
  /\ streams = << >>
  /\ LET h1 == IF kind = "list" THEN Append(heap, ListObj(xs))
               ELSE IF kind = "iter" THEN Append(heap, IterObj(xs))
               ELSE heap
         ref == IF kind = "none" THEN None ELSE Len(h1)
         s == Stream_init(h1, ref)
     IN  /\ heap' = s.heap
         /\ streams' = <<StreamObj(s.data, "new", kind, 0, << >>,
                                   IF kind = "none" THEN << >> ELSE xs)>>
  /\ UNCHANGED <<cpu, busVars, pipeVars, drv, last>>

\* The streams[k].map(f), .filter(p) and .flat_map(f) calls share this:
\* s is what the call computed.
Made(k, op, fn, s) ==
  /\ heap' = s.heap
  /\ streams' = Append(streams,
       StreamObj(s.data, op, fn, k, heap[streams[k].data].elems,
                 s.heap[s.data].elems))
  /\ UNCHANGED <<cpu, busVars, pipeVars, drv, last>>

StreamMap(k, f) ==
  /\ cpu = "none"
  /\ Len(streams) < MaxStreams
  /\ AllInts(heap[streams[k].data].elems)
  /\ Made(k, "map", f, stream_map(heap, streams[k].data, f))

StreamFilter(k, p) ==
  /\ cpu = "none"
  /\ Len(streams) < MaxStreams
  /\ AllInts(heap[streams[k].data].elems)
  /\ Made(k, "filter", p, stream_filter(heap, streams[k].data, p))

StreamFlatMap(k, f) ==
  /\ cpu = "none"
  /\ Len(streams) < MaxStreams
  /\ Made(k, "flat_map", f, stream_flat_map(heap, streams[k].data, f))

\* for x in streams[k]: ..., run to its end.
StreamIterate(k) ==
  /\ cpu = "none"
  /\ LET t == stream_iter(heap, streams[k].data)
     IN  /\ heap' = t.heap
         /\ last' = [op |-> "iter", stream |-> k, out |-> t.out]
  /\ UNCHANGED <<cpu, busVars, pipeVars, drv, streams>>

\* list(await streams[k].collect()): collect hands out self._data and the
\* caller reads it to its end; reading a list leaves it as it is, reading
\* an iterator uses it up.
StreamCollect(k) ==
  /\ cpu = "none"
  /\ LET t == Traverse(heap, collect(heap, streams[k].data))
     IN  /\ heap' = t.heap
         /\ last' = [op |-> "collect", stream |-> k, out |-> t.out]
  /\ UNCHANGED <<cpu, busVars, pipeVars, drv, streams>>

InitStream ==
  /\ heap = << >>
  /\ streams = << >>
  /\ last = NoTraversal

----------------------------------------------------------------------------
(* The program                                                             *)

Init ==
  /\ cpu = "none"
  /\ InitBus
  /\ InitPipe
  /\ InitDriver
  /\ InitStream

\* A bus whose subscribers are drawn from pool, and its publishers.
NextBusOf(pool) ==
  \/ \E t \in Types, h \in pool : Subscribe(t, h)
  \/ \E p \in PubTasks, ev \in Events : PublishCall(p, ev)
  \/ \E p \in PubTasks : PublishSync(p)
  \/ \E p \in PubTasks : PublishAsyncNow(p)
  \/ \E p \in PubTasks : PublishAwait(p)
  \/ \E p \in PubTasks : PublishResume(p)
  \/ \E p \in PubTasks : PublishReturn(p)
  \/ \E p \in PubTasks : PublishForget(p)

NextBus == NextBusOf(HandlerPool)

SpecBus == Init /\ [][NextBus]_vars

\* The same bus with handlers of the other forms.
NextBusForms == NextBusOf(HandlerForms)

SpecBusForms == Init /\ [][NextBusForms]_vars

\* The bus, and a caller of get_handlers who changes the list it got.
NextBusHeld ==
  \/ NextBusOf(SubscribedPool)
  \/ \E t \in Types : GetHandlers(t)
  \/ \E h \in HeldPool : HeldAppend(h)
  \/ HeldPop

SpecBusHeld == Init /\ [][NextBusHeld]_vars

\* One pipeline, executed by the tasks of T, with stages drawn from pool.
NextPipe(T, pool) ==
  \/ \E st \in pool : AddStage(1, st)
  \/ \E e \in T, d \in 0..MaxInput : ExecCall(e, 1, d)
  \/ \E e \in T : ExecStep(e)
  \/ \E e \in T : ExecAsyncNow(e)
  \/ \E e \in T : ExecAwait(e)
  \/ \E e \in T : ExecResume(e)
  \/ \E e \in T : ExecReturn(e)
  \/ \E e \in T : ExecForget(e)

NextPipe1 == NextPipe({"e1"}, StagePool)
NextPipe2 == NextPipe(ExecTasks, StagePool2)

NextPipeCo == NextPipe({"e1"}, StagePoolCo)
\* One execution at a time, stages with asynchronous conditions.
SpecPipeCo == Init /\ [][NextPipeCo]_vars

\* One execution at a time, every kind of stage.
SpecPipe == Init /\ [][NextPipe1]_vars
\* Two tasks executing the same pipeline.
SpecPipe2 == Init /\ [][NextPipe2]_vars

\* The builder, the pipelines built from it and the pipeline made directly.
NextBuilder ==
  \/ \E h \in BuilderHandlers : BuilderStage(h)
  \/ Build
  \/ \E pl \in DOMAIN pipes, h \in BuilderHandlers :
       AddStage(pl, PipelineStage("s", h, "none"))

SpecBuilder == Init /\ [][NextBuilder]_vars

NextDriver ==
  \/ DriverStart
  \/ DriverTake
  \/ DriverReturn
  \/ DriverProcSync
  \/ DriverProcAsyncNow
  \/ DriverProcAwait
  \/ DriverProcResume
  \/ DriverNoSink
  \/ DriverSinkNow
  \/ DriverSinkAwait
  \/ DriverSinkResume
  \/ DriverForget

SpecDriver == Init /\ [][NextDriver]_vars

\* One Stream made by the program, the Streams derived from it, and their
\* traversals.
NextStream ==
  \/ \E xs \in RootInputs, kind \in RootKinds : StreamNew(xs, kind)
  \/ \E k \in DOMAIN streams, f \in MapFuncs : StreamMap(k, f)
  \/ \E k \in DOMAIN streams, p \in PredFuncs : StreamFilter(k, p)
  \/ \E k \in DOMAIN streams, f \in FlatFuncs : StreamFlatMap(k, f)
  \/ \E k \in DOMAIN streams : StreamIterate(k)
  \/ \E k \in DOMAIN streams : StreamCollect(k)

SpecStream == Init /\ [][NextStream]_vars

----------------------------------------------------------------------------
(* Properties of EventBus                                                  *)

\* The handlers a publish call has called so far, in call order.
Calls(f) ==
  LET cs == SelectSeq(f.trace, LAMBDA x : x[1] = "call")
  IN  [k \in 1..Len(cs) |-> cs[k][2]]

\* The results of the handlers of hs that do not raise, in order.
RECURSIVE GoodResults(_, _)
GoodResults(hs, ev) ==
  IF hs = << >> THEN << >>
  ELSE IF Raises(Head(hs)) THEN GoodResults(Tail(hs), ev)
  ELSE <<ReturnValue(Head(hs), ev)>> \o GoodResults(Tail(hs), ev)

Failures(hs) == Cardinality({k \in 1..Len(hs) : Raises(hs[k])})

Active(p) == pub[p].pc # "idle"
\* This step is the one in which p's publish call ends.
Ends(p) == pub[p].pc \in {"loop", "await"} /\ pub'[p].pc \in {"done", "raised"}
\* This step is the one in which p calls publish.
Begins(p) == pub[p].pc = "idle" /\ pub'[p].pc # "idle"

\* Every call in the trace but the last is directly followed by the return or
\* the exception of the handler called, and nothing else separates two calls.
Sequential(tr) ==
  \A k \in 1..Len(tr) :
    IF k % 2 = 1 THEN tr[k][1] = "call"
    ELSE tr[k][1] \in {"ret", "exc"} /\ tr[k][2] = tr[k-1][2]

C1_OrderState ==
  \A p \in PubTasks : Active(p) =>
    LET f == pub[p]
        hs == subscribed[f.event.event_type]
    IN  /\ Len(Calls(f)) <= Len(hs)
        /\ Calls(f) = SubSeq(hs, 1, Len(Calls(f)))
        /\ Sequential(f.trace)
        /\ (f.pc = "await") = (Len(f.trace) % 2 = 1)

C1_OrderStep ==
  \A p \in PubTasks : Ends(p) =>
    /\ Calls(pub'[p]) = subscribed'[pub'[p].event.event_type]
    /\ Len(pub'[p].trace) = 2 * Len(Calls(pub'[p]))

\* C1: one publish call invokes the handlers of the event's type in exactly
\* subscription order, whatever the event's priority and whether they are
\* functions or coroutine functions; each invocation has returned or raised
\* before the next begins, and when publish ends every subscribed handler
\* has been invoked.
C1_PublishInSubscriptionOrder == []C1_OrderState /\ [][C1_OrderStep]_vars

\* A publish of a CRITICAL-priority event has ended after calling a failing
\* coroutine function, a function and a coroutine function, in that order.
C1_Witness ==
  \E p \in PubTasks :
    /\ pub[p].pc = "done"
    /\ pub[p].event.priority = CRITICAL
    /\ Calls(pub[p]) = <<"co_err", "f_ok", "co_ok">>

\* C2: failure isolation.  publish never raises; when it ends, its results
\* are exactly the return values of the handlers that did not raise, in
\* subscription order, so their number is the number of handlers minus the
\* number of failures, and each failure was reported once.
C2_Step ==
  \A p \in PubTasks :
    /\ pub'[p].pc # "raised"
    /\ Ends(p) =>
         LET f == pub'[p]
             hs == subscribed'[f.event.event_type]
         IN  /\ f.pc = "done"
             /\ f.results = GoodResults(hs, f.event)
             /\ Len(f.results) = Len(hs) - Failures(hs)
             /\ f.printed = Failures(hs)
             /\ Calls(f) = hs

C2_FailureIsolation == [][C2_Step]_vars

\* A publish has ended with two results around a failed handler.
C2_Witness ==
  \E p \in PubTasks :
    /\ pub[p].pc = "done"
    /\ Calls(pub[p]) = <<"f_ok", "co_err", "co_ok">>
    /\ pub[p].results = <<ReturnValue("f_ok", pub[p].event),
                          ReturnValue("co_ok", pub[p].event)>>
    /\ pub[p].printed = 1

\* C3: publishing an event whose type was never subscribed leaves the
\* type-to-handlers mapping as it is (no entry for the type), invokes no
\* handler, does not fail and returns an empty result sequence.
C3_Step ==
  \A p \in PubTasks :
    /\ (Begins(p) /\ subscribed[pub'[p].event.event_type] = << >>) =>
         /\ bus_handlers' = bus_handlers
         /\ pub'[p].event.event_type \notin DOMAIN bus_handlers'
         /\ pub'[p].pc = "loop"
         /\ ~HasNext(bus_handlers', pub'[p])
    /\ (Ends(p) /\ subscribed'[pub'[p].event.event_type] = << >>) =>
         /\ pub'[p].pc = "done"
         /\ pub'[p].results = << >>
         /\ pub'[p].trace = << >>
         /\ pub'[p].printed = 0
         /\ bus_handlers' = bus_handlers
         /\ pub'[p].event.event_type \notin DOMAIN bus_handlers'

C3_UnknownType == [][C3_Step]_vars

\* A publish of a never-subscribed type has returned while the other type
\* has handlers.
C3_Witness ==
  \E p \in PubTasks :
    /\ pub[p].pc = "done"
    /\ subscribed[pub[p].event.event_type] = << >>
    /\ pub[p].results = << >>
    /\ DOMAIN bus_handlers # {}

Count(hs, h) == Cardinality({k \in 1..Len(hs) : hs[k] = h})

C4_State ==
  /\ \A t \in Types : get_handlers(bus_handlers, t) = subscribed[t]
  /\ DOMAIN bus_handlers = {t \in Types : subscribed[t] # << >>}

C4_Step ==
  \A p \in PubTasks : Ends(p) =>
    \A h \in HandlerPool :
      Count(Calls(pub'[p]), h) = Count(subscribed'[pub'[p].event.event_type], h)

\* C4: get_handlers(T) is, for every type T, the handlers passed to
\* subscribe under T in call order, duplicates kept (empty for a type never
\* subscribed, which has no entry), and a publish invokes a handler as many
\* times as it was subscribed under the event's type.
C4_SubscribeAppends == []C4_State /\ [][C4_Step]_vars

\* A handler subscribed twice under one type was invoked twice by a publish,
\* while the other type has a handler of its own.
C4_Witness ==
  \E p \in PubTasks, t \in Types :
    /\ pub[p].pc = "done"
    /\ get_handlers(bus_handlers, pub[p].event.event_type) = <<"f_ok", "f_ok">>
    /\ Calls(pub[p]) = <<"f_ok", "f_ok">>
    /\ t # pub[p].event.event_type
    /\ Len(get_handlers(bus_handlers, t)) = 1

----------------------------------------------------------------------------
(* Properties of Pipeline                                                  *)

Running(e) == exec[e].pc # "idle"
\* This step is the one in which e's execute call ends.
ExecEnds(e) == exec[e].pc \in {"loop", "await"} /\ exec'[e].pc \in {"done", "failed"}

\* What a stage makes of data d: PipelineStage.execute run to its end.  The
\* condition decides as line 21 evaluates it (EvalCondition), so a
\* condition that is a coroutine function never skips.
StageResult(st, d) ==
  IF EvalCondition(st, d) = "raised"
    THEN [ok |-> FALSE, val |-> d, by |-> "condition"]
  ELSE IF EvalCondition(st, d) = "false"
    THEN [ok |-> TRUE, val |-> d, by |-> "skip"]
  ELSE IF h_raises(st.handler)
    THEN [ok |-> FALSE, val |-> d, by |-> "handler"]
  ELSE [ok |-> TRUE, val |-> h_value(st.handler, d), by |-> "handler"]

\* The stages of S applied one after the other to d, up to the first failure.
RECURSIVE RunAll(_, _)
RunAll(S, d) ==
  IF S = << >> THEN [ok |-> TRUE, val |-> d]
  ELSE LET r == StageResult(Head(S), d)
       IN  IF r.ok THEN RunAll(Tail(S), r.val) ELSE [ok |-> FALSE, val |-> d]

C5_State ==
  /\ chain.returned = chain.target
  /\ \A pl \in DOMAIN pipes : StagesOf(pl) = expected[pl]
  /\ \A e \in ExecTasks : Running(e) =>
       LET f == exec[e]
           S == expected[f.pipe]
           n == Len(f.visits)
       IN  /\ n <= Len(S)
           /\ \A j \in 1..n :
                LET v == f.visits[j]
                IN  /\ v.k = j
                    /\ j = 1 => v.inp = f.d0
                    /\ j > 1 => /\ f.visits[j-1].out # << >>
                                /\ v.inp = f.visits[j-1].out[1]
                    /\ v.out # << >> => /\ StageResult(S[j], v.inp).ok
                                        /\ v.out[1] = StageResult(S[j], v.inp).val
           /\ f.pc = "done" =>
                f.ret = <<IF n = 0 THEN f.d0 ELSE f.visits[n].out[1]>>

C5_Step ==
  \A e \in ExecTasks : (ExecEnds(e) /\ exec'[e].pc = "done") =>
    Len(exec'[e].visits) = Len(expected'[exec'[e].pipe])

\* C5: add_stage appends at the end of the pipeline's stage list and
\* returns the pipeline; execute(d0) runs the stages in append order, the
\* first on d0 and each later one on exactly the value the stage before it
\* produced, and returns the value the last stage produced (d0 when there
\* is no stage); when it returns, every stage has run.
C5_ExecuteThreadsData == []C5_State /\ [][C5_Step]_vars

\* execute(3) on [double, increment, ...] has returned, the first two stages
\* having made 6 and then 7 of it.
C5_Witness ==
  \E e \in ExecTasks :
    /\ exec[e].pc = "done"
    /\ exec[e].d0 = 3
    /\ Len(exec[e].visits) = 3
    /\ expected[1][1] = PipelineStage("s", "double", "none")
    /\ expected[1][2] = PipelineStage("s", "inc_co", "none")
    /\ exec[e].visits[2].out = <<7>>
    /\ exec[e].ret = exec[e].visits[3].out

\* C6: conditional skip.  A stage whose condition is false on the data it
\* is given does not call its handler and hands the data on unchanged; a
\* stage with no condition, or whose condition is true, calls its handler
\* exactly once and what the handler returns replaces the data.
C6_ConditionalSkip ==
  \A e \in ExecTasks : Running(e) =>
    LET f == exec[e]
        S == expected[f.pipe]
        n == Len(f.visits)
        \* the data that leaves visit j, as the rest of execute sees it
        HandedOn(j, d) ==
          /\ j < n => f.visits[j+1].inp = d
          /\ (j = n /\ f.pc = "loop") => f.data = d
          /\ (j = n /\ f.pc = "done") => f.ret = <<d>>
    IN  \A j \in 1..n :
          LET v == f.visits[j]
              c == S[j].condition
          IN  /\ (c # "none" /\ ~c_raises(c) /\ ~c_value(c, v.inp)) =>
                   /\ v.calls = 0
                   /\ v.state = "skipped"
                   /\ v.out = <<v.inp>>
                   /\ HandedOn(j, v.inp)
              /\ (c = "none" \/ (~c_raises(c) /\ c_value(c, v.inp))) =>
                   /\ v.calls = 1
                   /\ v.state \in {"running", "returned", "raised"}
                   /\ v.state = "returned" =>
                        /\ v.out = <<h_value(S[j].handler, v.inp)>>
                        /\ HandedOn(j, h_value(S[j].handler, v.inp))
                   /\ v.state = "raised" => h_raises(S[j].handler)

\* An execution has skipped a stage whose condition was false (data 1
\* stayed 1) and has run a later stage whose condition was true.
C6_Witness ==
  \E e \in ExecTasks :
    /\ exec[e].pc = "done"
    /\ Len(exec[e].visits) = 3
    /\ expected[1][1].condition = "gt1"
    /\ exec[e].visits[1].state = "skipped"
    /\ exec[e].visits[1].inp = 1
    /\ expected[1][3].condition = "gt1"
    /\ exec[e].visits[3].state = "returned"

C7_State ==
  \A e \in ExecTasks : Running(e) =>
    LET f == exec[e]
        S == expected[f.pipe]
        n == Len(f.visits)
    IN  /\ \A j \in 1..n :
             LET v == f.visits[j]
                 r == StageResult(S[j], v.inp)
             IN  (~r.ok /\ v.state # "running") =>
                   /\ f.pc = "failed"
                   /\ f.exc = << <<"Exception", r.by, j>> >>
                   /\ f.ret = << >>
                   /\ n = j
                   /\ v.calls = (IF r.by = "handler" THEN 1 ELSE 0)
                   /\ \A i \in 1..(j-1) :
                        /\ f.visits[i].k = i
                        /\ f.visits[i].state \in {"skipped", "returned"}
                        /\ f.visits[i].calls <= 1
        /\ f.pc = "failed" => (n > 0 /\ ~StageResult(S[n], f.visits[n].inp).ok)

C7_Step ==
  \A e \in ExecTasks :
    (Running(e) /\ exec[e].pc = "failed") =>
      (exec'[e] = exec[e] \/ exec'[e] = IdleExec)

\* C7: pipeline abort.  When the condition or the handler of stage k fails,
\* execute fails with that failure and returns no value; the stages before
\* k have each run once and no stage after k is reached, then or later.
C7_PipelineAbort == []C7_State /\ [][C7_Step]_vars

\* execute failed in the handler of the second of three stages, after the
\* handler had suspended: the third stage was never reached.
C7_Witness ==
  \E e \in ExecTasks :
    /\ exec[e].pc = "failed"
    /\ Len(expected[exec[e].pipe]) = 3
    /\ Len(exec[e].visits) = 2
    /\ exec[e].visits[1].state = "returned"
    /\ exec[e].exc = << <<"Exception", "handler", 2>> >>
    /\ expected[exec[e].pipe][2].handler = "boom_co"

\* C8: build() is a snapshot.  Every pipeline holds exactly the stages that
\* had been recorded by builder.stage when it was built, followed by the
\* stages given to its own add_stage, and the builder holds exactly the
\* stages given to builder.stage.
C8_BuildIsSnapshot ==
  /\ \A pl \in DOMAIN pipes : StagesOf(pl) = expected[pl]
  /\ lists[builder] = recorded

C9_State ==
  /\ \A e \in ExecTasks : Running(e) =>
       LET f == exec[e]
           S == expected[f.pipe]
           n == Len(f.visits)
           sofar == RunAll(SubSeq(S, 1, n), f.d0)
       IN  /\ \A j \in 1..n :
                /\ RunAll(SubSeq(S, 1, j-1), f.d0).ok
                /\ f.visits[j].inp = RunAll(SubSeq(S, 1, j-1), f.d0).val
           /\ f.pc = "loop" => (sofar.ok /\ f.data = sofar.val)
           /\ f.pc = "done" => (sofar.ok /\ f.ret = <<sofar.val>>)
           /\ f.pc = "failed" => ~sofar.ok
  /\ \A e1, e2 \in ExecTasks :
       ( /\ exec[e1].pc = "done" /\ exec[e2].pc = "done"
         /\ exec[e1].pipe = exec[e2].pipe
         /\ exec[e1].d0 = exec[e2].d0
         /\ Len(exec[e1].visits) = Len(exec[e2].visits) )
       => exec[e1].ret = exec[e2].ret

C9_Step ==
  \A e \in ExecTasks : ExecEnds(e) =>
    LET f == exec'[e]
        all == RunAll(expected'[f.pipe], f.d0)
    IN  /\ f.pc = "done" => (all.ok /\ f.ret = <<all.val>>)
        /\ f.pc = "failed" => ~all.ok

\* C9: executions of one pipeline are independent.  Whether they run one
\* after the other or interleave at their awaits, each execution gives
\* every stage the value its own initial data determines and ends with the
\* outcome the stage list determines for that initial data; two executions
\* of the same stages on the same data return the same value.
C9_IndependentExecutions == []C9_State /\ [][C9_Step]_vars

\* Two executions of the same pipeline are suspended at the same time, one
\* in the second stage and one in the first, on different data.
C9_Witness ==
  /\ exec["e1"].pc = "await"
  /\ exec["e2"].pc = "await"
  /\ exec["e1"].pipe = exec["e2"].pipe
  /\ exec["e1"].i = 2
  /\ exec["e2"].i = 1
  /\ exec["e1"].visits[1].state = "returned"
  /\ exec["e1"].visits[2].inp # exec["e2"].visits[1].inp

----------------------------------------------------------------------------
(* Properties of process_stream                                            *)

\* Pm(...P1(x)) for processors that return.
RECURSIVE Chain(_, _)
Chain(procs, x) ==
  IF procs = << >> THEN x ELSE Chain(Tail(procs), h_value(Head(procs), x))

\* The final values of the first n items of the source.
Mapped(f, n) == [k \in 1..n |-> Chain(f.procs, f.items[k])]

\* The first processor of procs, counted from j, that raises when the
\* processors are applied to x in turn; 0 when none does.
RECURSIVE FailingProc(_, _, _)
FailingProc(procs, x, j) ==
  IF procs = << >> THEN 0
  ELSE IF p_raises(Head(procs), x) THEN j
  ELSE FailingProc(Tail(procs), h_value(Head(procs), x), j + 1)

\* The failure that handling item k of the call ends with, << >> when the
\* item is handled without one.
ItemFailure(f, k) ==
  LET j == FailingProc(f.procs, f.items[k], 1)
  IN  IF j > 0 THEN << <<"Exception", "processor", j, k>> >>
      ELSE IF Truthy(f.sink) /\ consume_raises(f.sink, Chain(f.procs, f.items[k]))
      THEN << <<"Exception", "sink", 0, k>> >>
      ELSE << >>

\* The items of the call whose handling fails.
FailingItems(f) == {k \in 1..Len(f.items) : ItemFailure(f, k) # << >>}

\* No processor and not the sink raises on any item of the call.
NoFailure(f) == FailingItems(f) = {}

\* The first item whose handling fails.
FirstFailing(f) == CHOOSE k \in FailingItems(f) : \A l \in FailingItems(f) : k <= l

\* What the log of a call holds for item i once the item is done with.
ItemLog(i, sink) ==
  IF Truthy(sink) THEN << <<"take", i>>, <<"deliver", i>>, <<"delivered", i>> >>
  ELSE << <<"take", i>> >>

RECURSIVE ItemsLog(_, _)
ItemsLog(n, sink) ==
  IF n = 0 THEN << >> ELSE ItemsLog(n - 1, sink) \o ItemLog(n, sink)

\* What the log holds for the item in hand, after n finished items.
CurrentLog(f, n) ==
  CASE f.pc \in {"proc", "proc_wait"} -> << <<"take", n + 1>> >>
    [] f.pc = "sink_wait" -> << <<"take", n + 1>>, <<"deliver", n + 1>> >>
    [] f.pc = "done" -> << <<"return", 0>> >>
    [] OTHER -> << >>

\* C10: with processors and a sink that do not fail, process_stream does
\* not fail and returns the final values y1..yn of the source's items in
\* source order, with or without a sink; a sink receives y1..yn once each,
\* in that order, the delivery of yi being complete before item i+1 is
\* taken from the source and before process_stream returns.
C10_DriverOrder ==
  (drv.pc # "idle" /\ NoFailure(drv)) =>
    LET f == drv
        n == Len(f.results)
    IN  /\ f.pc # "failed"
        /\ n <= Len(f.items)
        /\ f.results = Mapped(f, n)
        /\ f.sunk = (IF Truthy(f.sink) THEN f.results ELSE << >>)
        /\ f.log = ItemsLog(n, f.sink) \o CurrentLog(f, n)
        /\ f.pc = "done" => n = Len(f.items)

\* process_stream over a source of 1, 2, 3 with the processor double and a
\* sink has returned [2, 4, 6] and the sink holds 2, 4, 6.
C10_Witness ==
  /\ drv.pc = "done"
  /\ drv.items = <<1, 2, 3>>
  /\ drv.procs = <<"double">>
  /\ drv.sink = "capture"
  /\ drv.results = <<2, 4, 6>>
  /\ drv.sunk = <<2, 4, 6>>

\* The log of a call that failed on item k: the failure came from a
\* processor (the item was taken) or from the sink (consume was called).
FailedLog(f, k) ==
  IF f.exc[1][2] = "sink" THEN << <<"take", k>>, <<"deliver", k>> >>
  ELSE << <<"take", k>> >>

C11_State ==
  (drv.pc # "idle" /\ ~NoFailure(drv)) =>
    LET f == drv
        k == FirstFailing(f)
        n == Len(f.results)
    IN  /\ f.pc # "done"
        /\ f.pos <= k
        /\ n <= k - 1
        /\ f.results = Mapped(f, n)
        /\ f.sunk = (IF Truthy(f.sink) THEN f.results ELSE << >>)
        /\ f.pc = "failed" =>
             /\ f.pos = k
             /\ f.exc = ItemFailure(f, k)
             /\ n = k - 1
             /\ f.log = ItemsLog(k - 1, f.sink) \o FailedLog(f, k)
        /\ f.pc # "failed" =>
             /\ f.exc = << >>
             /\ f.log = ItemsLog(n, f.sink) \o CurrentLog(f, n)

\* A failed call does nothing more: its frame stays as it is until the
\* caller drops it, and a call fails only when an item's handling fails.
C11_Step ==
  /\ drv.pc = "failed" => (drv' = drv \/ drv'.pc = "idle")
  /\ (drv.pc # "failed" /\ drv'.pc = "failed") => ~NoFailure(drv')

\* C11: driver abort.  When a processor or the sink raises on item k,
\* process_stream fails with that exception and returns nothing; the sink
\* has then received exactly the final values of items 1..k-1, in order,
\* and no item after k is taken from the source, processed or delivered,
\* then or later.
C11_DriverAbort == []C11_State /\ [][C11_Step]_vars

\* The second processor failed on item 2 of 1, 2, 3: the sink holds the
\* final value of item 1 and item 3 was never taken.
C11_Witness ==
  /\ drv.pc = "failed"
  /\ drv.items = <<1, 2, 3>>
  /\ drv.procs = <<"double", "picky_co">>
  /\ drv.sink = "capture"
  /\ drv.exc = << <<"Exception", "processor", 2, 2>> >>
  /\ drv.sunk = <<3>>
  /\ drv.pos = 2

----------------------------------------------------------------------------
(* Properties of Stream                                                    *)

\* What a traversal of streams[k] would yield now.
Contents(k) == heap[streams[k].data].elems
\* This step is a map, filter or flat_map call on an existing Stream.
Transforms == streams # << >> /\ Len(streams') = Len(streams) + 1

\* C12: a map, filter or flat_map call leaves the element sequence of
\* every existing Stream, its receiver included, as it was, and returns a
\* Stream whose element sequence is an object no existing Stream holds.
C12_ReceiverUnchanged ==
  [][Transforms =>
       /\ \A k \in DOMAIN streams :
            /\ streams'[k] = streams[k]
            /\ heap'[streams'[k].data].elems = Contents(k)
       /\ \A k \in DOMAIN streams :
            streams'[Len(streams')].data # streams[k].data]_vars

\* C13: the Stream map(f) returns holds f(x) for each element x the
\* receiver held, in the same order and number; the Stream filter(p)
\* returns holds the elements of the receiver that satisfy p, in their
\* order; so map(g) of map(f) holds g(f(x)) for each x.
C13_MapFilter ==
  \A k \in DOMAIN streams :
    LET s == streams[k]
        ys == Contents(k)
    IN  /\ s.op = "map" =>
             /\ Len(ys) = Len(s.arg)
             /\ \A i \in 1..Len(ys) : ys[i] = MapApply(s.fn, s.arg[i])
        /\ s.op = "filter" =>
             /\ ys = SelectSeq(s.arg, LAMBDA x : PredApply(s.fn, x))
             /\ Len(ys) <= Len(s.arg)
        /\ (s.op = "map" /\ streams[s.recv].op = "map") =>
             LET r == streams[s.recv]
             IN  /\ Len(ys) = Len(r.arg)
                 /\ \A i \in 1..Len(ys) :
                      ys[i] = MapApply(s.fn, MapApply(r.fn, r.arg[i]))

\* Stream([1, 2, 3]).map(double).map(inc) holds 3, 5, 7.
C13_Witness ==
  /\ Len(streams) = 3
  /\ streams[1].fn = "list" /\ streams[1].orig = <<IntVal(1), IntVal(2), IntVal(3)>>
  /\ streams[2].op = "map" /\ streams[2].fn = "double" /\ streams[2].recv = 1
  /\ streams[3].op = "map" /\ streams[3].fn = "inc" /\ streams[3].recv = 2
  /\ Contents(3) = <<IntVal(3), IntVal(5), IntVal(7)>>

\* What one result of the function contributes: the elements of a list,
\* anything else (text and bytes too) itself.
Expansion(r) == IF r[1] = "list" THEN r[2] ELSE <<r>>

RECURSIVE Flattened(_, _)
Flattened(f, xs) ==
  IF xs = << >> THEN << >>
  ELSE Expansion(FlatApply(f, Head(xs))) \o Flattened(f, Tail(xs))

\* C14: the Stream flat_map(f) returns holds, for each element x of the
\* receiver in order, the elements of f(x) when f(x) is a list (lists
\* inside it stay single elements, an empty list gives nothing) and f(x)
\* itself otherwise, text and bytes included.
C14_FlatMapOneLevel ==
  \A k \in DOMAIN streams :
    streams[k].op = "flat_map" =>
      Contents(k) = Flattened(streams[k].fn, streams[k].arg)

\* Stream([[1, 2], [3]]).flat_map(same) holds 1, 2, 3 and its
\* flat_map(nest) holds [1], 1, [2], 2, [3], 3.
C14_Witness ==
  /\ Len(streams) = 3
  /\ streams[1].orig = <<ListVal(<<IntVal(1), IntVal(2)>>), ListVal(<<IntVal(3)>>)>>
  /\ streams[2].op = "flat_map" /\ streams[2].fn = "same" /\ streams[2].recv = 1
  /\ Contents(2) = <<IntVal(1), IntVal(2), IntVal(3)>>
  /\ streams[3].op = "flat_map" /\ streams[3].fn = "nest" /\ streams[3].recv = 2
  /\ Contents(3) = <<ListVal(<<IntVal(1)>>), IntVal(1), ListVal(<<IntVal(2)>>),
                     IntVal(2), ListVal(<<IntVal(3)>>), IntVal(3)>>

\* C15: every traversal and every collect of a Stream gives the elements
\* the Stream was made with, whatever traversals and collects came before.
C15_ReTraversable ==
  last.op # "none" => last.out = streams[last.stream].orig

----------------------------------------------------------------------------
(* Properties of the callable forms                                        *)

\* The handlers of a publish call that have returned, in order.
Returned(f) ==
  LET rs == SelectSeq(f.trace, LAMBDA x : x[1] = "ret")
  IN  [k \in 1..Len(rs) |-> rs[k][2]]

\* C16: uniform awaiting, in publish.  The results of a publish call are
\* the values its returned handlers resolved to, whatever form the handler
\* has; no result is an operation still pending.
C16_UniformAwait ==
  \A p \in PubTasks : Active(p) =>
    LET f == pub[p]
    IN  /\ Len(f.results) = Len(Returned(f))
        /\ \A k \in 1..Len(f.results) :
             /\ f.results[k][1] # "pending"
             /\ f.results[k] = Resolved(Returned(f)[k], f.event)

\* C17: a stage whose condition is a coroutine function and resolves to
\* false on the data the stage is given does not call its handler and
\* hands the data on unchanged.
C17_AsyncCondition ==
  \A e \in ExecTasks : Running(e) =>
    LET f == exec[e]
        S == expected[f.pipe]
    IN  \A j \in 1..Len(f.visits) :
          LET v == f.visits[j]
              c == S[j].condition
          IN  (c_iscoroutinefunction(c) /\ ~c_value(c, v.inp)) =>
                /\ v.calls = 0
                /\ v.state = "skipped"
                /\ v.out = <<v.inp>>

\* The handler is an EventHandler object: it has handle and can_handle.
IsEventHandler(h) == h = "eh_ok"
\* can_handle of a handler without filters (lines 57-62).
can_handle(h, ev) == TRUE

\* FuncEventHandler.handle(event): what the wrapped function returns
\* (lines 72-75).
HandleValue(h, ev) == <<h, ev.data>>

\* C18: when a publish of a T event has ended, every EventHandler object
\* subscribed under T that can handle the event has a result, the value
\* its handle(event) returned, at its position among the results: after
\* one result for each earlier handler that is such an object or did not
\* raise.
C18_ObjectDispatch ==
  \A p \in PubTasks : pub[p].pc = "done" =>
    LET f == pub[p]
        hs == Calls(f)
        Gives(i) == (IsEventHandler(hs[i]) /\ can_handle(hs[i], f.event))
                    \/ (~IsEventHandler(hs[i]) /\ ~Raises(hs[i]))
    IN  \A k \in 1..Len(hs) :
          (IsEventHandler(hs[k]) /\ can_handle(hs[k], f.event)) =>
            LET j == Cardinality({i \in 1..k : Gives(i)})
            IN  /\ j <= Len(f.results)
                /\ f.results[j] = HandleValue(hs[k], f.event)

\* C19: snapshot dispatch.  The handlers a publish call invokes are, in
\* order, handlers the list held when the call began, and when the call
\* has ended they are all of them, each once.
C19_SnapshotDispatch ==
  \A p \in PubTasks : Active(p) =>
    LET f == pub[p]
        n == Len(Calls(f))
    IN  /\ n <= Len(f.atcall)
        /\ Calls(f) = SubSeq(f.atcall, 1, n)
        /\ f.pc = "done" => n = Len(f.atcall)

\* C20: get_handlers and whatever its caller does to the list it returned
\* leave the bus as it is, only subscribe changes it, and a publish that
\* ends has invoked exactly the handlers subscribed under its type.
C20_ReadOnlyIntrospection ==
  [][/\ subscribed' = subscribed => bus_handlers' = bus_handlers
     /\ \A p \in PubTasks : Ends(p) =>
          Calls(pub'[p]) = subscribed'[pub'[p].event.event_type]]_vars

====
